---- MODULE Spec2Model ----
(***************************************************************************)
(* The agentic sampling loop of computer_use_demo/loop.py: sampling_loop,  *)
(* _make_api_tool_result and summarize_image_with_vision, as a state       *)
(* machine whose steps are the statements of one sampling_loop invocation. *)
(***************************************************************************)
EXTENDS Integers, Sequences, FiniteSets, TLC

(* ------------------------------ bounds -------------------------------- *)
\* model calls one invocation may issue before the exploration stops
MaxModelCalls == 3
\* tool calls a single model reply may carry
MaxCalls == 2
\* tool calls the replies in one history may carry in total
MaxToolCalls == 2
\* script runs of the streamlit driver in one session
MaxScriptRuns == 3

(* --------------------------- Python values ---------------------------- *)
\* Python's None, and the truthiness test applied by `x or ""` and by
\* `if getattr(result, "error", None):`
None == "<None>"
Truthy(v) == v # None /\ v # ""
OrEmpty(v) == IF Truthy(v) THEN v ELSE ""

(* ------------------------------ JSON ----------------------------------- *)
\* JSON text is kept as its sequence of lexical tokens <<kind, text>>:
\* "p" punctuation, "s" a string literal, "n" a number literal.
P(c) == <<"p", c>>
S(s) == <<"s", s>>
N(n) == <<"n", n>>

\* JSON values: [k |-> "str", v], [k |-> "num", v], [k |-> "arr", v |-> seq],
\* [k |-> "obj", v |-> sequence of <<key, value>>] (a dict in insertion order)
JStr(s) == [k |-> "str", v |-> s]
JNum(n) == [k |-> "num", v |-> n]
JArr(a) == [k |-> "arr", v |-> a]
JObj(ps) == [k |-> "obj", v |-> ps]

RECURSIVE DumpValue(_), DumpMembers(_, _), DumpElems(_, _)
\* json.dumps(payload, ensure_ascii=False): the default separators ", " and
\* ": " are whitespace between tokens and do not appear in the token form
DumpValue(val) ==
    CASE val.k = "str" -> <<S(val.v)>>
      [] val.k = "num" -> <<N(val.v)>>
      [] val.k = "arr" -> <<P("[")>> \o DumpElems(val.v, 1) \o <<P("]")>>
      [] val.k = "obj" -> <<P("{")>> \o DumpMembers(val.v, 1) \o <<P("}")>>
DumpMembers(ps, i) ==
    IF i > Len(ps) THEN <<>>
    ELSE (IF i > 1 THEN <<P(",")>> ELSE <<>>)
         \o <<S(ps[i][1]), P(":")>> \o DumpValue(ps[i][2])
         \o DumpMembers(ps, i + 1)
DumpElems(es, i) ==
    IF i > Len(es) THEN <<>>
    ELSE (IF i > 1 THEN <<P(",")>> ELSE <<>>)
         \o DumpValue(es[i]) \o DumpElems(es, i + 1)
json_dumps(val) == DumpValue(val)

\* json.loads: a recursive-descent parse of the token sequence. A parse
\* result is [ok, val, next]; ok = FALSE stands for json.JSONDecodeError.
ParseFail == [ok |-> FALSE, val |-> JStr(""), next |-> 0]
Tok(toks, i) == IF i <= Len(toks) THEN toks[i] ELSE <<"eof", "">>

RECURSIVE ParseValue(_, _), ParseMembers(_, _, _), ParseElems(_, _, _)
ParseValue(toks, i) ==
    LET t == Tok(toks, i) IN
    CASE t[1] = "s" -> [ok |-> TRUE, val |-> JStr(t[2]), next |-> i + 1]
      [] t[1] = "n" -> [ok |-> TRUE, val |-> JNum(t[2]), next |-> i + 1]
      [] t = P("{") ->
            IF Tok(toks, i + 1) = P("}")
            THEN [ok |-> TRUE, val |-> JObj(<<>>), next |-> i + 2]
            ELSE ParseMembers(toks, i + 1, <<>>)
      [] t = P("[") ->
            IF Tok(toks, i + 1) = P("]")
            THEN [ok |-> TRUE, val |-> JArr(<<>>), next |-> i + 2]
            ELSE ParseElems(toks, i + 1, <<>>)
      [] OTHER -> ParseFail
\* members after "{" or ",": STRING ":" value, then "," or "}"
ParseMembers(toks, i, acc) ==
    IF Tok(toks, i)[1] # "s" \/ Tok(toks, i + 1) # P(":") THEN ParseFail
    ELSE LET r == ParseValue(toks, i + 2) IN
         IF ~r.ok THEN ParseFail
         ELSE LET acc2 == Append(acc, <<Tok(toks, i)[2], r.val>>) IN
              IF Tok(toks, r.next) = P(",") THEN ParseMembers(toks, r.next + 1, acc2)
              ELSE IF Tok(toks, r.next) = P("}")
                   THEN [ok |-> TRUE, val |-> JObj(acc2), next |-> r.next + 1]
                   ELSE ParseFail
ParseElems(toks, i, acc) ==
    LET r == ParseValue(toks, i) IN
    IF ~r.ok THEN ParseFail
    ELSE LET acc2 == Append(acc, r.val) IN
         IF Tok(toks, r.next) = P(",") THEN ParseElems(toks, r.next + 1, acc2)
         ELSE IF Tok(toks, r.next) = P("]")
              THEN [ok |-> TRUE, val |-> JArr(acc2), next |-> r.next + 1]
              ELSE ParseFail
\* the whole text must be one value
json_loads(toks) ==
    LET r == ParseValue(toks, 1) IN
    IF r.ok /\ r.next = Len(toks) + 1 THEN r ELSE ParseFail

\* dict lookups on a parsed object
HasKey(obj, key) == \E j \in 1..Len(obj.v) : obj.v[j][1] = key
Get(obj, key) == obj.v[CHOOSE j \in 1..Len(obj.v) : obj.v[j][1] = key][2]
Keys(obj) == {obj.v[j][1] : j \in 1..Len(obj.v)}

(* ---------------------------- tool calls ------------------------------- *)
\* argument payloads the model may put into function.arguments (JSON text)
ArgsScreenshot == <<P("{"), S("action"), P(":"), S("screenshot"), P("}")>>
ArgsMouseMove ==
    <<P("{"), S("action"), P(":"), S("mouse_move"), P(","),
      S("coordinate"), P(":"), P("["), N("1"), P(","), N("2"), P("]"), P("}")>>
\* a payload cut off by the token budget: not JSON
ArgsTruncated == <<P("{"), S("action"), P(":")>>

\* the (tool name, arguments) pairs a reply's calls are drawn from
CallKinds ==
    { <<"computer", ArgsScreenshot>>,
      <<"computer", ArgsMouseMove>>,
      <<"bash", ArgsScreenshot>>,
      <<"computer", ArgsTruncated>> }

\* identifiers are opaque and unique within one response
CallIds == <<"call_a", "call_b", "call_c">>
ToolCall(j, kind) ==
    [id |-> CallIds[j], function |-> [name |-> kind[1], arguments |-> kind[2]]]

\* response.tool_calls is None or a list
NoToolCalls == [is_none |-> TRUE, items |-> <<>>]
ToolCallList(items) == [is_none |-> FALSE, items |-> items]
ToolCallLists ==
    UNION { { ToolCallList([j \in 1..n |-> ToolCall(j, ks[j])]) : ks \in [1..n -> CallKinds] }
            : n \in 0..MaxCalls }

\* response.choices[0].message
ReplyTexts == {None, "I will look at the screen."}
Replies == [content : ReplyTexts, tool_calls : {NoToolCalls} \cup ToolCallLists]
NoReply == [content |-> None, tool_calls |-> NoToolCalls]

(* ------------------------- ToolCollection.run -------------------------- *)
ToolResult(output, error, base64_image) ==
    [output |-> output, error |-> error, base64_image |-> base64_image]
NoResult == ToolResult(None, None, None)
ToolFailure(msg) == ToolResult(None, msg, None)

Actions == {"mouse_move", "left_click", "screenshot"}
IsCoordinate(c) ==
    c.k = "arr" /\ Len(c.v) = 2 /\ \A j \in 1..2 : c.v[j].k = "num"

Screenshot == "iVBORw0KGgo="

\* the results an action that passed validation may produce
ActionResults(action) ==
    IF action = "screenshot"
    THEN { ToolResult(None, None, Screenshot),
           ToolResult(None, "xdotool: warning", Screenshot) }
    ELSE { ToolResult("done", None, None), ToolResult("done", "", None) }

\* tool_collection.run(name=..., tool_input=...): total, validation failures
\* come back as a result with error set
Run(name, tool_input) ==
    IF name # "computer" THEN { ToolFailure("Tool is invalid") }
    ELSE IF tool_input.k # "obj" \/ ~HasKey(tool_input, "action")
         THEN { ToolFailure("action is required") }
    ELSE LET action == Get(tool_input, "action") IN
         IF action.k # "str" \/ action.v \notin Actions
         THEN { ToolFailure("Invalid action") }
         ELSE IF action.v = "mouse_move"
              THEN IF HasKey(tool_input, "coordinate")
                      /\ IsCoordinate(Get(tool_input, "coordinate"))
                   THEN ActionResults(action.v)
                   ELSE { ToolFailure("coordinate is required for mouse_move") }
              ELSE IF HasKey(tool_input, "coordinate")
                   THEN { ToolFailure("coordinate is not accepted") }
                   ELSE ActionResults(action.v)

(* --------------------------- result encoder ---------------------------- *)
\* what the vision endpoint call of summarize_image_with_vision does:
\* a reply with text, a reply without content, or any exception
VisionOutcomes ==
    { [kind |-> "ok", text |-> "Desktop with a browser icon at (40, 300)."],
      [kind |-> "ok", text |-> None],
      [kind |-> "raise", text |-> "Connection error."] }
NoVision == [kind |-> "unused", text |-> None]

\* mutant: the except branch returns an empty description
summarize_image_with_vision_EmptyOnFailure(vision, b64_png) ==
    IF vision.kind = "ok" THEN OrEmpty(vision.text) ELSE ""

summarize_image_with_vision(vision, b64_png) ==
    IF vision.kind = "ok" THEN OrEmpty(vision.text)
    ELSE "[vision summary failed: " \o vision.text \o "]"

\* mutant: `elif` instead of the second `if`
_make_api_tool_result_Elif(result, tool_call_id, vision) ==
    LET payload ==
          IF Truthy(result.error) THEN << <<"error", JStr(result.error)>> >>
          ELSE IF Truthy(result.base64_image)
          THEN << <<"image",
                    JObj(<< <<"type", JStr("base64")>>,
                            <<"media_type", JStr("image/png")>>,
                            <<"data", JStr(summarize_image_with_vision(
                                              vision, result.base64_image))>> >>)>> >>
          ELSE <<>>
    IN [role |-> "tool", tool_call_id |-> tool_call_id,
        content |-> json_dumps(JObj(payload))]

\* mutant: the image is passed on as it is
_make_api_tool_result_RawImage(result, tool_call_id, vision) ==
    LET error == IF Truthy(result.error)
                 THEN << <<"error", JStr(result.error)>> >> ELSE <<>>
        image == IF Truthy(result.base64_image)
                 THEN << <<"image",
                           JObj(<< <<"type", JStr("base64")>>,
                                   <<"media_type", JStr("image/png")>>,
                                   <<"data", JStr(result.base64_image)>> >>)>> >>
                 ELSE <<>>
    IN [role |-> "tool", tool_call_id |-> tool_call_id,
        content |-> json_dumps(JObj(error \o image))]

_make_api_tool_result(result, tool_call_id, vision) ==
    LET error == IF Truthy(result.error)
                 THEN << <<"error", JStr(result.error)>> >> ELSE <<>>
        image == IF Truthy(result.base64_image)
                 THEN << <<"image",
                           JObj(<< <<"type", JStr("base64")>>,
                                   <<"media_type", JStr("image/png")>>,
                                   <<"data", JStr(summarize_image_with_vision(
                                                     vision, result.base64_image))>> >>)>> >>
                 ELSE <<>>
    IN [role |-> "tool",
        tool_call_id |-> tool_call_id,
        content |-> json_dumps(JObj(error \o image))]

(* --------------------------- sampling_loop ----------------------------- *)
VARIABLES
    messages,             \* the caller's history list, mutated in place
    init,                 \* the history as passed in (never changes)
    callbacks,            \* "supplied", or "none": the parameters' default None
    pc,                   \* the statement sampling_loop is at
    nModelCalls,          \* chat.completions requests issued so far
    request,              \* messages= of the latest chat.completions request
    raw_response,         \* the latest raw response
    response,             \* response.choices[0].message
    tool_result_content,  \* the tool messages collected for the current reply
    i,                    \* position of the for loop in response.tool_calls
    tool_input,           \* json.loads(tool_call.function.arguments)
    result,               \* the ToolResult of the current call
    failure,              \* <<exception, statement>> once the coroutine has failed
    trace,                \* external interactions so far, in order
    vision_request,       \* messages= of the vision request for the current tool call
    other,                \* the frame of a second invocation on the same list
    ui                    \* the streamlit session and the script run of main()

vars == <<messages, init, callbacks, pc, nModelCalls, request, raw_response,
          response, tool_result_content, i, tool_input, result, failure, trace,
          vision_request, other, ui>>

SYSTEM_PROMPT == "<SYSTEM_CAPABILITY>"
SystemMessage == [role |-> "system", content |-> SYSTEM_PROMPT]
UserMessage(text) == [role |-> "user", content |-> text]
AssistantMessage(content, tool_calls) ==
    [role |-> "assistant", content |-> content, tool_calls |-> tool_calls]

\* histories a caller passes in: a first user message, or a conversation
\* continued after an earlier invocation returned
InitialHistories ==
    { <<UserMessage("Click at 0 0 ")>>,
      <<UserMessage("Click at 0 0 "),
        AssistantMessage("Done.", <<>>),
        UserMessage("Now take a screenshot")>> }

NoFailure == <<"", "">>
Event(kind, arg) == <<kind, arg>>

\* a second invocation that has not been started: pc is where its coroutine
\* rests ("idle", "top" of the while loop, "await", "returned", "failed");
\* mine, replies and answered record what it has added to the history
OtherIdle ==
    [pc |-> "idle", response |-> NoReply, i |-> 0, tool_input |-> JObj(<<>>),
     tool_result_content |-> <<>>, mine |-> {}, replies |-> 0, answered |-> 0]

\* streamlit.py 55-77 (setup_state) and the script run of main(): pc is
\* "rest" between script runs, "chat" at line 129, "loop" while
\* sampling_loop is awaited; started counts the invocations of this script
\* run, runs the script runs; fresh records that a user message was
\* appended since sampling_loop last returned
UiRest ==
    [pc |-> "rest", api_key |-> "", new_message |-> None,
     in_sampling_loop |-> FALSE, started |-> 0, runs |-> 0, fresh |-> FALSE]

Init ==
    /\ messages \in InitialHistories
    /\ init = messages
    /\ callbacks \in {"supplied", "none"}
    /\ pc = "create"
    /\ nModelCalls = 0
    /\ request = <<>>
    /\ raw_response = [parseable |-> FALSE, message |-> NoReply]
    /\ response = NoReply
    /\ tool_result_content = <<>>
    /\ i = 0
    /\ tool_input = JObj(<<>>)
    /\ result = NoResult
    /\ failure = NoFailure
    /\ trace = <<>>
    /\ vision_request = <<>>
    /\ other = OtherIdle
    /\ ui = UiRest

\* an exception leaves the coroutine: nothing else of the frame changes
Raise(exc) ==
    /\ pc' = "failed"
    /\ failure' = <<exc, pc>>

\* the tool call the for loop is at
tool_call == response.tool_calls.items[i]

\* mutant: a failed request is sent again
Create_Retry ==
    /\ pc = "create"
    /\ nModelCalls < MaxModelCalls
    /\ nModelCalls' = nModelCalls + 1
    /\ request' = <<SystemMessage>> \o messages
    /\ \/ /\ \E parseable \in BOOLEAN, message \in Replies :
                raw_response' = [parseable |-> parseable,
                                 message |-> IF parseable THEN message ELSE NoReply]
          /\ trace' = Append(trace, Event("create", "ok"))
          /\ pc' = "api_response_callback"
       \/ /\ trace' = Append(trace, Event("create", "raised"))
          /\ pc' = "create"
          /\ UNCHANGED raw_response
    /\ UNCHANGED <<messages, init, callbacks, response, tool_result_content, i,
                   tool_input, result, failure>>
    /\ UNCHANGED <<vision_request, other>>
    /\ UNCHANGED ui

\* tool calls requested so far by the replies appended to the history
RECURSIVE Requested(_, _)
Requested(h, p) ==
    IF p > Len(h) THEN 0
    ELSE (IF h[p].role = "assistant" THEN Len(h[p].tool_calls) ELSE 0) + Requested(h, p + 1)

\* mutant: only the latest message is sent
CreateRequest_LastOnly == <<SystemMessage>> \o SubSeq(messages, Len(messages), Len(messages))

\* loop.py 122-141: client.chat.completions.with_raw_response.create(...)
CreateRequest == <<SystemMessage>> \o messages
Create ==
    /\ pc = "create"
    /\ nModelCalls < MaxModelCalls
    /\ nModelCalls' = nModelCalls + 1
    /\ request' = CreateRequest
    /\ \/ /\ \E parseable \in BOOLEAN, message \in Replies :
                /\ Len(message.tool_calls.items) + Requested(messages, 1)
                      <= MaxToolCalls
                /\ raw_response' = [parseable |-> parseable,
                                    message |-> IF parseable THEN message ELSE NoReply]
          /\ trace' = Append(trace, Event("create", "ok"))
          /\ pc' = "api_response_callback"
          /\ UNCHANGED failure
       \/ /\ trace' = Append(trace, Event("create", "raised"))
          /\ Raise("APIError")
          /\ UNCHANGED raw_response
    /\ UNCHANGED <<messages, init, callbacks, response, tool_result_content, i,
                   tool_input, result>>
    /\ UNCHANGED <<vision_request, other>>
    /\ UNCHANGED ui

\* loop.py 144-146: api_response_callback(request, response, None)
ApiResponseCallback ==
    /\ pc = "api_response_callback"
    /\ IF callbacks = "none"
       THEN Raise("TypeError") /\ UNCHANGED trace
       ELSE /\ trace' = Append(trace, Event("api_response_callback", ""))
            /\ pc' = "parse"
            /\ UNCHANGED failure
    /\ UNCHANGED <<messages, init, callbacks, nModelCalls, request, raw_response,
                   response, tool_result_content, i, tool_input, result>>
    /\ UNCHANGED <<vision_request, other>>
    /\ UNCHANGED ui

\* mutant: the reply is appended before it is parsed
Parse_AppendFirst ==
    /\ pc = "parse"
    /\ messages' = Append(messages, AssistantMessage("", <<>>))
    /\ IF raw_response.parseable
       THEN /\ response' = raw_response.message
            /\ pc' = "output_callback"
            /\ UNCHANGED failure
       ELSE Raise("APIResponseValidationError") /\ UNCHANGED response
    /\ UNCHANGED <<init, callbacks, nModelCalls, request, raw_response,
                   tool_result_content, i, tool_input, result, trace>>
    /\ UNCHANGED <<vision_request, other>>
    /\ UNCHANGED ui

\* loop.py 151-153: raw_response.parse(); response.choices[0].message
Parse ==
    /\ pc = "parse"
    /\ IF raw_response.parseable
       THEN /\ response' = raw_response.message
            /\ pc' = "output_callback"
            /\ UNCHANGED failure
       ELSE Raise("APIResponseValidationError") /\ UNCHANGED response
    /\ UNCHANGED <<messages, init, callbacks, nModelCalls, request, raw_response,
                   tool_result_content, i, tool_input, result, trace>>
    /\ UNCHANGED <<vision_request, other>>
    /\ UNCHANGED ui

\* mutant: the content is passed on without `or ""`
OutputCallback_RawContent ==
    /\ pc = "output_callback"
    /\ trace' = Append(trace, Event("output_callback", response.content))
    /\ pc' = "append"
    /\ UNCHANGED <<messages, init, callbacks, nModelCalls, request, raw_response,
                   response, tool_result_content, i, tool_input, result, failure>>
    /\ UNCHANGED <<vision_request, other>>
    /\ UNCHANGED ui

\* loop.py 155: output_callback(response.content or "")
OutputCallback ==
    /\ pc = "output_callback"
    /\ trace' = Append(trace, Event("output_callback", OrEmpty(response.content)))
    /\ pc' = "append"
    /\ UNCHANGED <<messages, init, callbacks, nModelCalls, request, raw_response,
                   response, tool_result_content, i, tool_input, result, failure>>
    /\ UNCHANGED <<vision_request, other>>
    /\ UNCHANGED ui

\* loop.py 157-165: messages.append({...}); tool_result_content = []
ToolCallsOrEmpty(tool_calls) == IF tool_calls.is_none THEN <<>> ELSE tool_calls.items
AppendAssistant ==
    /\ pc = "append"
    /\ messages' = Append(messages,
                          AssistantMessage(OrEmpty(response.content),
                                           ToolCallsOrEmpty(response.tool_calls)))
    /\ tool_result_content' = <<>>
    /\ i' = 1
    /\ pc' = "for"
    /\ UNCHANGED <<init, callbacks, nModelCalls, request, raw_response, response,
                   tool_input, result, failure, trace>>
    /\ UNCHANGED <<vision_request, other>>
    /\ UNCHANGED ui

\* loop.py 169: for tool_call in response.tool_calls
For ==
    /\ pc = "for"
    /\ IF response.tool_calls.is_none
       THEN Raise("TypeError")
       ELSE /\ pc' = IF i <= Len(response.tool_calls.items) THEN "json_loads" ELSE "if_not"
            /\ UNCHANGED failure
    /\ UNCHANGED <<messages, init, callbacks, nModelCalls, request, raw_response,
                   response, tool_result_content, i, tool_input, result, trace>>
    /\ UNCHANGED <<vision_request, other>>
    /\ UNCHANGED ui

\* loop.py 173: tool_input=json.loads(tool_call.function.arguments)
JsonLoads ==
    /\ pc = "json_loads"
    /\ LET r == json_loads(tool_call.function.arguments) IN
       IF r.ok
       THEN /\ tool_input' = r.val
            /\ pc' = "run"
            /\ UNCHANGED failure
       ELSE Raise("JSONDecodeError") /\ UNCHANGED tool_input
    /\ UNCHANGED <<messages, init, callbacks, nModelCalls, request, raw_response,
                   response, tool_result_content, i, result, trace>>
    /\ UNCHANGED <<vision_request, other>>
    /\ UNCHANGED ui

\* loop.py 171-174: result = await tool_collection.run(...)
RunTool ==
    /\ pc = "run"
    /\ \E r \in Run(tool_call.function.name, tool_input) : result' = r
    /\ trace' = Append(trace, Event("run", tool_call.id))
    /\ pc' = "make_api_tool_result"
    /\ UNCHANGED <<messages, init, callbacks, nModelCalls, request, raw_response,
                   response, tool_result_content, i, tool_input, failure>>
    /\ UNCHANGED <<vision_request, other>>
    /\ UNCHANGED ui

\* the task is cancelled while suspended at the await of loop.py 171
Cancel ==
    /\ pc = "run"
    /\ Raise("CancelledError")
    /\ UNCHANGED <<messages, init, callbacks, nModelCalls, request, raw_response,
                   response, tool_result_content, i, tool_input, result, trace>>
    /\ UNCHANGED <<vision_request, other>>
    /\ UNCHANGED ui

\* loop.py 221-228: the system instruction and the image prompt of the
\* vision request
VisionSystem ==
    [role |-> "system", content |-> "You describe screenshots for a desktop-control agent."]
VisionPrompt(b64_png) ==
    [role |-> "user",
     content |-> << [type |-> "image_url",
                     image_url |-> [url |-> "data:image/jpeg;base64," \o b64_png]] >>]

\* mutant: the tool messages of the current batch are part of the context
VisionContext_WithBatch == messages \o tool_result_content

\* loop.py 176: context=messages
VisionContext == messages
\* loop.py 232: messages=[system]+context+[prompt]
VisionRequest(context, b64_png) == <<VisionSystem>> \o context \o <<VisionPrompt(b64_png)>>

\* loop.py 175-177: tool_result_content.append(_make_api_tool_result(...))
MakeApiToolResult ==
    /\ pc = "make_api_tool_result"
    /\ \E vision \in (IF Truthy(result.base64_image) THEN VisionOutcomes ELSE {NoVision}) :
          /\ tool_result_content' =
                Append(tool_result_content,
                       _make_api_tool_result(result, tool_call.id, vision))
          /\ trace' = Append(trace, Event("make_api_tool_result:" \o vision.kind, tool_call.id))
    /\ vision_request' = IF Truthy(result.base64_image)
                         THEN VisionRequest(VisionContext, result.base64_image)
                         ELSE <<>>
    /\ pc' = "tool_output_callback"
    /\ UNCHANGED <<messages, init, callbacks, nModelCalls, request, raw_response,
                   response, i, tool_input, result, failure>>
    /\ UNCHANGED other
    /\ UNCHANGED ui

\* loop.py 180: tool_output_callback(result, tool_call.id)
ToolOutputCallback ==
    /\ pc = "tool_output_callback"
    /\ trace' = Append(trace, Event("tool_output_callback", tool_call.id))
    /\ i' = i + 1
    /\ pc' = "for"
    /\ vision_request' = <<>>
    /\ UNCHANGED <<messages, init, callbacks, nModelCalls, request, raw_response,
                   response, tool_result_content, tool_input, result, failure>>
    /\ UNCHANGED other
    /\ UNCHANGED ui

\* a caller's callback raises (loop.py 144, 155, 180)
CallbackRaises ==
    /\ pc \in {"api_response_callback", "output_callback", "tool_output_callback"}
    /\ callbacks = "supplied"
    /\ Raise("CallbackError")
    /\ UNCHANGED <<messages, init, callbacks, nModelCalls, request, raw_response,
                   response, tool_result_content, i, tool_input, result, trace>>
    /\ UNCHANGED <<vision_request, other>>
    /\ UNCHANGED ui

\* mutant: the tool messages are inserted at the front of the history
IfNot_Prepend ==
    /\ pc = "if_not"
    /\ IF tool_result_content = <<>>
       THEN pc' = "returned" /\ UNCHANGED messages
       ELSE /\ pc' = "create"
            /\ messages' = tool_result_content \o messages
    /\ UNCHANGED <<init, callbacks, nModelCalls, request, raw_response, response,
                   tool_result_content, i, tool_input, result, failure, trace>>
    /\ UNCHANGED <<vision_request, other>>
    /\ UNCHANGED ui

\* mutant: the test of the return is inverted
IfNot_Inverted ==
    /\ pc = "if_not"
    /\ IF tool_result_content # <<>>
       THEN pc' = "returned" /\ UNCHANGED messages
       ELSE pc' = "create" /\ messages' = messages \o tool_result_content
    /\ UNCHANGED <<init, callbacks, nModelCalls, request, raw_response, response,
                   tool_result_content, i, tool_input, result, failure, trace>>
    /\ UNCHANGED <<vision_request, other>>
    /\ UNCHANGED ui

\* mutant: the collected tool messages are not added to the history
IfNot_NoExtend ==
    /\ pc = "if_not"
    /\ pc' = IF tool_result_content = <<>> THEN "returned" ELSE "create"
    /\ UNCHANGED <<messages, init, callbacks, nModelCalls, request, raw_response,
                   response, tool_result_content, i, tool_input, result, failure, trace>>
    /\ UNCHANGED <<vision_request, other>>
    /\ UNCHANGED ui

\* loop.py 183-186: if not tool_result_content: return messages
\*                  messages.extend(tool_result_content)
IfNot ==
    /\ pc = "if_not"
    /\ IF tool_result_content = <<>>
       THEN pc' = "returned" /\ UNCHANGED messages
       ELSE pc' = "create" /\ messages' = messages \o tool_result_content
    /\ UNCHANGED <<init, callbacks, nModelCalls, request, raw_response, response,
                   tool_result_content, i, tool_input, result, failure, trace>>
    /\ UNCHANGED <<vision_request, other>>
    /\ UNCHANGED ui

Next ==
    \/ Create
    \/ ApiResponseCallback
    \/ Parse
    \/ OutputCallback
    \/ AppendAssistant
    \/ For
    \/ JsonLoads
    \/ RunTool
    \/ Cancel
    \/ MakeApiToolResult
    \/ ToolOutputCallback
    \/ CallbackRaises
    \/ IfNot

Spec == Init /\ [][Next]_vars

(* ------------------ a second invocation on the same list --------------- *)
\* Two sampling_loop coroutines on one event loop: a coroutine runs until
\* it suspends at `await tool_collection.run(...)` (loop.py 171), the only
\* await of the body, or ends.  The second invocation is given callbacks
\* that return; its steps are the stretches of code between two
\* suspensions, and it runs only while the first one is suspended, has
\* ended or has not started.
Suspended ==
    \/ pc \in {"run", "returned", "failed"}
    \/ pc = "create" /\ trace = <<>>

\* The environment of the overlap and of the driver study: the order and
\* the roles of the appended messages do not
\* depend on the text of a reply, on which of its results a tool run
\* returns or on what the vision endpoint does, so replies carry no text,
\* a tool run returns its first result and the vision endpoint answers.
QuietReply(message) == message.content = None
QuietResult(r) == r.error \notin {"", "xdotool: warning"}
QuietVision(vision) == vision.kind # "raise" /\ (vision.kind = "ok" => vision.text # None)
QuietToolMessage(m) == \A t \in 1..Len(m.content) : m.content[t] # S("")
\* the step just taken by the first invocation was a quiet one
QuietCreate == QuietReply(raw_response.message)
QuietRun == QuietResult(result)
QuietEncode ==
    /\ trace[Len(trace)][1] # "make_api_tool_result:raise"
    /\ QuietToolMessage(tool_result_content[Len(tool_result_content)])

\* loop.py 169-173 and 183-184 for the frame fr: where the coroutine rests
\* next, going on from the head of the for loop
OtherFor(fr) ==
    IF fr.response.tool_calls.is_none THEN [fr EXCEPT !.pc = "failed"]
    ELSE IF fr.i <= Len(fr.response.tool_calls.items)
    THEN LET r == json_loads(fr.response.tool_calls.items[fr.i].function.arguments) IN
         IF r.ok THEN [fr EXCEPT !.pc = "await", !.tool_input = r.val]
         ELSE [fr EXCEPT !.pc = "failed"]
    ELSE IF fr.tool_result_content = <<>> THEN [fr EXCEPT !.pc = "returned"]
    ELSE [fr EXCEPT !.pc = "top",
                    !.mine = @ \cup (Len(messages) + 1
                                        ..Len(messages) + Len(fr.tool_result_content))]

\* the for loop of fr is over and the batch is not empty (loop.py 183)
OtherExtends(fr) ==
    /\ ~fr.response.tool_calls.is_none
    /\ fr.i > Len(fr.response.tool_calls.items)
    /\ fr.tool_result_content # <<>>

\* mutant: the batch is put where the history ended when the reply was appended
OtherExtend_AtOwnReply(fr) ==
    LET last == CHOOSE p \in fr.mine : \A q \in fr.mine : q <= p
    IN SubSeq(messages, 1, last) \o fr.tool_result_content

\* loop.py 186: messages.extend(tool_result_content)
OtherExtend(fr) == messages \o fr.tool_result_content

\* loop.py 135-173: from the model call to the first suspension
OtherModelCall ==
    /\ Suspended
    /\ other.pc \in {"idle", "top"}
    /\ nModelCalls < MaxModelCalls
    /\ nModelCalls' = nModelCalls + 1
    /\ \/ /\ other' = [other EXCEPT !.pc = "failed"]
          /\ UNCHANGED messages
       \/ \E message \in {m \in Replies : QuietReply(m)} :
             /\ Len(message.tool_calls.items) + Requested(messages, 1)
                   <= MaxToolCalls
             /\ messages' = Append(messages,
                                   AssistantMessage(OrEmpty(message.content),
                                                    ToolCallsOrEmpty(message.tool_calls)))
             /\ other' = OtherFor([other EXCEPT !.response = message,
                                                !.i = 1,
                                                !.tool_result_content = <<>>,
                                                !.mine = @ \cup {Len(messages) + 1},
                                                !.replies = @ + 1])
    /\ UNCHANGED <<init, callbacks, pc, request, raw_response, response,
                   tool_result_content, i, tool_input, result, failure, trace,
                   vision_request>>
    /\ UNCHANGED ui

\* loop.py 171-186: from the completion of the awaited tool run to the next
\* suspension, the return or the top of the while loop
OtherResume ==
    /\ Suspended
    /\ other.pc = "await"
    /\ LET call == other.response.tool_calls.items[other.i] IN
       \E r \in {x \in Run(call.function.name, other.tool_input) : QuietResult(x)} :
       \E vision \in (IF Truthy(r.base64_image)
                       THEN {v \in VisionOutcomes : QuietVision(v)} ELSE {NoVision}) :
          LET fr == [other EXCEPT
                       !.tool_result_content =
                           Append(@, _make_api_tool_result(r, call.id, vision)),
                       !.i = @ + 1,
                       !.answered = @ + 1]
          IN /\ messages' = IF OtherExtends(fr) THEN OtherExtend(fr) ELSE messages
             /\ other' = OtherFor(fr)
    /\ UNCHANGED <<init, callbacks, pc, nModelCalls, request, raw_response, response,
                   tool_result_content, i, tool_input, result, failure, trace,
                   vision_request>>
    /\ UNCHANGED ui

NextOverlap ==
    \/ Create /\ QuietCreate'
    \/ ApiResponseCallback
    \/ Parse
    \/ OutputCallback
    \/ AppendAssistant
    \/ For
    \/ JsonLoads
    \/ RunTool /\ QuietRun'
    \/ Cancel
    \/ MakeApiToolResult /\ QuietEncode'
    \/ ToolOutputCallback
    \/ CallbackRaises
    \/ IfNot
    \/ OtherModelCall
    \/ OtherResume

SpecOverlap == Init /\ [][NextOverlap]_vars

(* --------------------------- streamlit driver --------------------------- *)
\* what the user does to trigger a script run: the text submitted in the
\* chat input (None when another widget triggered the run)
ChatInputs == {None, "Now take a screenshot"}
ApiKeys == {"", "nebius-key"}

\* streamlit.py 55-77: a new session; no sampling_loop coroutine exists
InitDriver ==
    /\ messages = <<>>
    /\ init = <<>>
    /\ callbacks = "supplied"
    /\ pc = "none"
    /\ nModelCalls = 0
    /\ request = <<>>
    /\ raw_response = [parseable |-> FALSE, message |-> NoReply]
    /\ response = NoReply
    /\ tool_result_content = <<>>
    /\ i = 0
    /\ tool_input = JObj(<<>>)
    /\ result = NoResult
    /\ failure = NoFailure
    /\ trace = <<>>
    /\ vision_request = <<>>
    /\ other = OtherIdle
    /\ ui = UiRest

\* streamlit.py 81-126: a script run up to the chat tab: the sidebar, the
\* Reset button (session_state.clear(); setup_state()) and the api key test
ScriptRun ==
    /\ ui.pc = "rest"
    /\ ui.runs < MaxScriptRuns
    /\ \E api_key \in ApiKeys, reset \in BOOLEAN, new_message \in ChatInputs :
          /\ reset => new_message = None
          /\ messages' = IF reset THEN <<>> ELSE messages
          /\ ui' = [ui EXCEPT !.runs = @ + 1,
                              !.started = 0,
                              !.api_key = api_key,
                              !.new_message = new_message,
                              !.in_sampling_loop = IF reset THEN FALSE ELSE @,
                              !.fresh = IF reset THEN FALSE ELSE @,
                              !.pc = IF Truthy(api_key) THEN "chat" ELSE "rest"]
    /\ UNCHANGED <<init, callbacks, pc, nModelCalls, request, raw_response, response,
                   tool_result_content, i, tool_input, result, failure, trace,
                   vision_request, other>>

\* streamlit.py 137-139: the history with the submitted text appended
WithNewMessage ==
    IF Truthy(ui.new_message) THEN Append(messages, UserMessage(ui.new_message))
    ELSE messages

\* mutant: the role of the most recent message is not tested
StartsLoop_AnyRole(history) == Len(history) > 0

\* streamlit.py 141-148: there is a most recent message and it is a user's
StartsLoop(history) == Len(history) > 0 /\ history[Len(history)].role = "user"

\* streamlit.py 129-169: the chat tab: the new message is appended, and
\* sampling_loop is called on the session's list inside track_sampling_loop
Chat ==
    /\ ui.pc = "chat"
    /\ messages' = WithNewMessage
    /\ IF StartsLoop(WithNewMessage)
       THEN /\ ui' = [ui EXCEPT !.pc = "loop",
                                !.new_message = None,
                                !.in_sampling_loop = TRUE,
                                !.started = @ + 1,
                                !.fresh = @ \/ Truthy(ui.new_message)]
            /\ init' = WithNewMessage
            /\ pc' = "create"
            /\ failure' = NoFailure
       ELSE /\ ui' = [ui EXCEPT !.pc = "rest",
                                !.new_message = None,
                                !.fresh = @ \/ Truthy(ui.new_message)]
            /\ UNCHANGED <<init, pc, failure>>
    /\ UNCHANGED <<callbacks, nModelCalls, request, raw_response, response,
                   tool_result_content, i, tool_input, result, trace,
                   vision_request, other>>

\* the coroutine has ended: its locals are gone
Discard ==
    /\ request' = <<>>
    /\ raw_response' = [parseable |-> FALSE, message |-> NoReply]
    /\ response' = NoReply
    /\ tool_result_content' = <<>>
    /\ i' = 0
    /\ tool_input' = JObj(<<>>)
    /\ result' = NoResult
    /\ trace' = <<>>
    /\ vision_request' = <<>>

\* streamlit.py 151 and 177: sampling_loop returned; the list is stored
\* and the with block is left
Finish ==
    /\ ui.pc = "loop"
    /\ pc = "returned"
    /\ ui' = [ui EXCEPT !.pc = "rest", !.in_sampling_loop = FALSE, !.fresh = FALSE]
    /\ Discard
    /\ UNCHANGED <<messages, init, callbacks, pc, nModelCalls, failure, other>>

\* streamlit.py 150-169 and 173-177: an exception of sampling_loop leaves
\* main(); track_sampling_loop has no finally, the flag stays set
Propagate ==
    /\ ui.pc = "loop"
    /\ pc = "failed"
    /\ ui' = [ui EXCEPT !.pc = "rest"]
    /\ Discard
    /\ UNCHANGED <<messages, init, callbacks, pc, nModelCalls, failure, other>>

NextDriver ==
    \/ ScriptRun
    \/ Chat
    \/ Finish
    \/ Propagate
    \/ Create /\ QuietCreate'
    \/ ApiResponseCallback
    \/ Parse
    \/ OutputCallback
    \/ AppendAssistant
    \/ For
    \/ JsonLoads
    \/ RunTool /\ QuietRun'
    \/ Cancel
    \/ MakeApiToolResult /\ QuietEncode'
    \/ ToolOutputCallback
    \/ CallbackRaises
    \/ IfNot

SpecDriver == InitDriver /\ [][NextDriver]_vars

(* ------------------------- shape of the history ------------------------ *)
\* the history at the moment of the latest model call (the request without
\* its system message)
Before == Tail(request)

\* the tool calls of the current reply, as the for loop sees them
Calls == ToolCallsOrEmpty(response.tool_calls)

\* h[p] is an assistant message and the messages right after it are exactly
\* the tool messages answering its calls, in order
AnsweredAt(h, p) ==
    LET calls == h[p].tool_calls IN
    /\ p + Len(calls) <= Len(h)
    /\ \A j \in 1..Len(calls) :
          /\ h[p + j].role = "tool"
          /\ h[p + j].tool_call_id = calls[j].id
    /\ p + Len(calls) < Len(h) => h[p + Len(calls) + 1].role # "tool"

\* from position p on, h is a sequence of complete iterations
RECURSIVE CompleteFrom(_, _)
CompleteFrom(h, p) ==
    IF p > Len(h) THEN TRUE
    ELSE /\ h[p].role = "assistant"
         /\ AnsweredAt(h, p)
         /\ CompleteFrom(h, p + Len(h[p].tool_calls) + 1)

\* number of assistant messages appended by this invocation
Iterations(h) == Cardinality({p \in Len(init) + 1..Len(h) : h[p].role = "assistant"})

\* equality of histories (messages of different roles are different)
SameMessages(g, h) ==
    /\ Len(g) = Len(h)
    /\ \A p \in 1..Len(g) : g[p].role = h[p].role /\ g[p] = h[p]
StartsWith(h, g) == Len(g) <= Len(h) /\ SameMessages(SubSeq(h, 1, Len(g)), g)

\* the invocation failed for a reason outside the loop's own statements:
\* cancellation, a raising callback, or callbacks left at None
External ==
    \/ callbacks = "none"
    \/ failure[1] \in {"CancelledError", "CallbackError"}

\* the payload of a tool message, read back from its content
Payload(m) == json_loads(m.content).val
\* the tool messages of a sequence of messages
ToolMessages(h) == {h[p] : p \in {q \in 1..Len(h) : h[q].role = "tool"}}
LastEvent == IF trace = <<>> THEN Event("", "") ELSE trace[Len(trace)]
Events(kinds) == Cardinality({p \in 1..Len(trace) : trace[p][1] \in kinds})
EmptyObject == <<P("{"), P("}")>>

(* ------------------------------ claims --------------------------------- *)

\* C1: once the loop is done with a reply (it issues the next model call, has
\* returned or has failed), every assistant message it appended is followed
\* by exactly one tool message per tool call, in the order of the calls and
\* carrying their identifiers.
C1_OneToolMessagePerCall ==
    (pc \in {"create", "returned", "failed"} /\ ~External) =>
        \A p \in Len(init) + 1..Len(messages) :
            messages[p].role = "assistant" => AnsweredAt(messages, p)

\* C2: a parsed reply with zero tool calls (an empty or absent list) ends the
\* invocation by returning the history, which is the history of the request
\* plus the one assistant message; no failure, no further model call.
C2_ZeroCallsReturn ==
    (/\ ~External
     /\ Len(Calls) = 0
     /\ \/ pc \in {"for", "if_not", "returned"}
        \/ pc = "failed" /\ failure[2] \in {"for", "if_not"}) =>
        /\ pc # "failed"
        /\ pc = "returned" =>
              /\ LastEvent[1] = "output_callback"
              /\ Len(messages) = Len(Before) + 1
              /\ StartsWith(messages, Before)
              /\ messages[Len(messages)] = AssistantMessage(OrEmpty(response.content), <<>>)

\* C3: when model call K fails (the request raises or the response does not
\* parse) the history is the initial messages followed by exactly K-1
\* complete iterations.
ModelCallFailed ==
    /\ pc = "failed"
    /\ failure \in {<<"APIError", "create">>, <<"APIResponseValidationError", "parse">>}
C3_NoPartialIterationOnModelFailure ==
    ModelCallFailed =>
        /\ StartsWith(messages, init)
        /\ CompleteFrom(messages, Len(init) + 1)
        /\ Iterations(messages) = nModelCalls - 1
        /\ SameMessages(messages, Before)
C3_Witness ==
    /\ ModelCallFailed
    /\ nModelCalls = 2
    /\ Len(messages) = Len(init) + 3

\* C4: a failed invocation leaves in the history all messages of the
\* interrupted iteration or none of them.
C4_AllOrNothing ==
    pc = "failed" =>
        \/ Len(messages) = Len(Before)
        \/ /\ Len(messages) = Len(Before) + 1 + Len(Calls)
           /\ AnsweredAt(messages, Len(Before) + 1)

\* C5: no tool call makes the invocation fail, whatever its name and
\* argument payload.
C5_ToolCallNeverFatal ==
    pc = "failed" =>
        ~(/\ failure[2] \in {"json_loads", "run", "make_api_tool_result"}
          /\ failure[1] # "CancelledError")

\* C6: right after a result has been encoded, the tool message's content is a
\* JSON object whose keys are "error" exactly when the result has an error and
\* "image" exactly when it has an image, whatever its output; {} with neither
\* and {"error": msg} with only an error.
C6_EncodingByErrorAndImage ==
    pc = "tool_output_callback" =>
        LET m == tool_result_content[Len(tool_result_content)]
            r == json_loads(m.content)
            hasError == Truthy(result.error)
            hasImage == Truthy(result.base64_image)
        IN /\ m.role = "tool"
           /\ m.tool_call_id = tool_call.id
           /\ r.ok
           /\ r.val.k = "obj"
           /\ Keys(r.val) = (IF hasError THEN {"error"} ELSE {})
                               \cup (IF hasImage THEN {"image"} ELSE {})
           /\ hasError => Get(r.val, "error") = JStr(result.error)
           /\ hasImage =>
                 LET image == Get(r.val, "image") IN
                 /\ image.k = "obj"
                 /\ Keys(image) = {"type", "media_type", "data"}
                 /\ Get(image, "type") = JStr("base64")
                 /\ Get(image, "media_type") = JStr("image/png")
                 /\ Get(image, "data").k = "str"
           /\ (~hasError /\ ~hasImage) => m.content = EmptyObject
           /\ (hasError /\ ~hasImage) =>
                 m.content = <<P("{"), S("error"), P(":"), S(result.error), P("}")>>
C6_Witness ==
    /\ pc = "tool_output_callback"
    /\ Len(tool_result_content) = 2
    /\ tool_result_content[1].content = EmptyObject
    /\ Truthy(result.error)
    /\ Truthy(result.base64_image)

\* C7: a failed vision call never fails the invocation: the tool message is
\* still added to the collected tool messages and its image.data is a
\* non-empty marker text.
VisionFailed == LastEvent = Event("make_api_tool_result:raise", tool_call.id)
C7_VisionFailureRecovered ==
    /\ failure[2] # "make_api_tool_result"
    /\ (pc = "tool_output_callback" /\ VisionFailed) =>
          LET m == tool_result_content[Len(tool_result_content)] IN
          /\ Len(tool_result_content) = i
          /\ m.tool_call_id = tool_call.id
          /\ HasKey(Payload(m), "image")
          /\ Get(Get(Payload(m), "image"), "data").k = "str"
          /\ Get(Get(Payload(m), "image"), "data").v \notin {"", None}
          /\ \E v \in VisionOutcomes :
                Get(Get(Payload(m), "image"), "data").v
                    = "[vision summary failed: " \o v.text \o "]"
C7_Witness ==
    /\ pc = "create"
    /\ nModelCalls = 1
    /\ \E p \in 1..Len(trace) : trace[p][1] = "make_api_tool_result:raise"

\* C8: no tool message collected, appended or sent carries the base64 image
\* of a tool result: image.data is the summarizer's text.
Base64Images == {Screenshot}
\* no token of the content, the value of "data" included, is the image
NoRawImage(m) == \A t \in 1..Len(m.content) : m.content[t][2] \notin Base64Images
C8_NoRawImageInHistory ==
    \A m \in ToolMessages(messages) \cup ToolMessages(tool_result_content)
                \cup ToolMessages(request) : NoRawImage(m)
C8_Witness ==
    \E m \in ToolMessages(request) : HasKey(Payload(m), "image")

\* C9: a failed model call is the last thing the invocation does: no retry,
\* no tool, no output or tool-output callback, and the invocation ends failed.
C9_ModelFailureIsFatal ==
    /\ \A p \in 1..Len(trace) :
          trace[p] = Event("create", "raised") =>
              /\ p = Len(trace)
              /\ pc = "failed"
              /\ failure = <<"APIError", "create">>
    /\ (nModelCalls >= 1 /\ ~raw_response.parseable
            /\ LastEvent # Event("create", "raised")) =>
          /\ pc \in {"api_response_callback", "parse", "failed"}
          /\ pc = "failed" => failure[2] \in {"api_response_callback", "parse"}
          /\ LastEvent[1] \in {"create", "api_response_callback"}
    /\ ModelCallFailed => Events({"create"}) = nModelCalls
C9_Witness ==
    /\ pc = "failed"
    /\ failure = <<"APIResponseValidationError", "parse">>
    /\ nModelCalls = 2
    /\ LastEvent = Event("api_response_callback", "")

\* C10: tool calls are evaluated only between the completion of their model
\* call and the next request, and every request carries, after the initial
\* messages, only complete iterations.
InToolProcessing == pc \in {"json_loads", "run", "make_api_tool_result", "tool_output_callback"}
C10_ModelCallsAndToolsAlternate ==
    /\ Events({"create"}) = nModelCalls
    /\ Len(request) > 0 =>
          /\ request[1] = SystemMessage
          /\ StartsWith(Before, init)
          /\ CompleteFrom(Before, Len(init) + 1)
    /\ pc = "api_response_callback" =>
          /\ SameMessages(Before, messages)
          /\ Cardinality({p \in Len(init) + 1..Len(Before) : Before[p].role = "tool"})
                = Events({"run"})
          /\ Events({"run"}) = Events({"tool_output_callback"})
    /\ InToolProcessing =>
          /\ raw_response.parseable
          /\ response = raw_response.message
          /\ Len(messages) = Len(Before) + 1
          /\ messages[Len(messages)].role = "assistant"
          /\ messages[Len(messages)].tool_calls = Calls
          /\ i = Len(tool_result_content) + (IF pc = "tool_output_callback" THEN 0 ELSE 1)
C10_Witness ==
    /\ pc = "api_response_callback"
    /\ nModelCalls = 2
    /\ Len(Before) = Len(init) + 3

\* the external interactions since the latest chat.completions request
LastCreate ==
    LET creates == {p \in 1..Len(trace) : trace[p][1] = "create"} IN
    IF creates = {} THEN 0
    ELSE CHOOSE p \in creates : \A q \in creates : q <= p
SinceCreate == SubSeq(trace, LastCreate + 1, Len(trace))
EncodeEvents ==
    {"make_api_tool_result:ok", "make_api_tool_result:raise", "make_api_tool_result:unused"}

\* the loop is past the assistant message of the current reply
PastAppend ==
    \/ pc \in {"for", "json_loads", "run", "make_api_tool_result",
               "tool_output_callback", "if_not", "returned"}
    \/ pc = "failed" /\ failure[2] \in {"for", "json_loads", "run", "tool_output_callback"}
    \/ pc = "create" /\ trace # <<>>
\* the loop is done with the current reply
DoneWithReply ==
    \/ pc = "returned"
    \/ pc = "failed" /\ failure[2] \in {"for", "json_loads", "run", "tool_output_callback"}
    \/ pc = "create" /\ trace # <<>>

\* C11: once the loop is done with a reply, each of its tool calls has been
\* run exactly once, in the order of the reply, each followed by its encoding
\* and its tool-output callback before the next call is run; a call is run
\* with its own parsed arguments.
C11_EachCallDispatchedOnce ==
    /\ pc = "run" => tool_input = json_loads(tool_call.function.arguments).val
    /\ (DoneWithReply /\ ~External) =>
          /\ Len(SinceCreate) = 2 + 3 * Len(Calls)
          /\ \A j \in 1..Len(Calls) :
                /\ SinceCreate[3 * j] = Event("run", Calls[j].id)
                /\ SinceCreate[3 * j + 1][1] \in EncodeEvents
                /\ SinceCreate[3 * j + 1][2] = Calls[j].id
                /\ SinceCreate[3 * j + 2] = Event("tool_output_callback", Calls[j].id)

\* C12: the history only grows at its end: the messages passed in stay its
\* prefix, and every step keeps the messages already there, in place.
C12_AppendOnly ==
    /\ [](StartsWith(messages, init))
    /\ [][StartsWith(messages', messages) /\ init' = init]_vars
C12_Witness ==
    /\ pc = "failed"
    /\ failure[1] = "JSONDecodeError"
    /\ Len(messages) = Len(init) + 3

C14_RunsWithoutCallbacks ==
    callbacks = "none" => (pc = "failed" => ModelCallFailed)

\* C15: the invocation goes on as long as the replies carry tool calls and
\* ends only by returning after a reply with zero tool calls or by a failure
\* of the model call.
C15_ReturnsIffZeroCalls ==
    /\ pc = "returned" => Len(Calls) = 0
    /\ (pc = "create" /\ trace # <<>>) => Len(Calls) >= 1
    /\ (pc = "failed" /\ ~External) => ModelCallFailed

\* C16: for every reply that is appended, the response-observation callback
\* and then the output callback, with the reply's text or "", were invoked
\* once each since the request, before the assistant message was appended and
\* before any tool call was run.
C16_CallbacksOncePerReply ==
    LET since == SinceCreate IN
    /\ PastAppend \/ pc = "append" =>
          /\ Len(since) >= 2
          /\ since[1] = Event("api_response_callback", "")
          /\ since[2] = Event("output_callback", OrEmpty(response.content))
          /\ \A p \in 3..Len(since) :
                since[p][1] \notin {"api_response_callback", "output_callback"}
    /\ pc \in {"api_response_callback", "parse", "output_callback", "append"} =>
          /\ Len(messages) = Len(Before)
          /\ \A p \in 1..Len(since) : since[p][1] # "run"
    /\ Events({"output_callback"}) = Iterations(messages) + (IF pc = "append" THEN 1 ELSE 0)
C16_Witness ==
    /\ pc = "returned"
    /\ response.content = None
    /\ nModelCalls = 2
    /\ LastEvent = Event("output_callback", "")

\* C17: a reply whose tool-call list is absent ends the invocation like one
\* whose list is empty: the assistant message has an empty tool_calls list
\* and text content, and the history is returned.
C17_AbsentToolCallsReturn ==
    (/\ ~External
     /\ response.tool_calls.is_none
     /\ \/ pc = "returned"
        \/ pc = "failed" /\ failure[2] = "for") =>
        /\ pc = "returned"
        /\ messages[Len(messages)] = AssistantMessage(OrEmpty(response.content), <<>>)

\* C19: the returned history is the initial messages, then groups of one
\* assistant message with tool calls and exactly its tool messages, then one
\* assistant message without tool calls.
C19_ReturnedShape ==
    pc = "returned" =>
        /\ StartsWith(messages, init)
        /\ Len(messages) > Len(init)
        /\ CompleteFrom(messages, Len(init) + 1)
        /\ messages[Len(messages)].role = "assistant"
        /\ messages[Len(messages)].tool_calls = <<>>
        /\ \A p \in Len(init) + 1..Len(messages) - 1 :
              messages[p].role = "assistant" => Len(messages[p].tool_calls) >= 1
C19_Witness ==
    /\ pc = "returned"
    /\ nModelCalls = 3
    /\ Len(messages) = Len(init) + 5

\* the context of the latest vision request: what lies between the system
\* instruction and the image prompt
VisionContextSent == SubSeq(vision_request, 2, Len(vision_request) - 1)
Summarized == pc = "tool_output_callback" /\ Truthy(result.base64_image)

\* C18 (as stated): when the image of the j-th tool call of a reply is
\* summarized, the context sent to the vision endpoint is the history up to
\* and including the current assistant reply together with the tool messages
\* already produced for calls 1..j-1 of the same reply
C18_ContextWithEarlierToolMessages ==
    Summarized =>
        SameMessages(VisionContextSent,
                     messages \o SubSeq(tool_result_content, 1, i - 1))

\* C18 (amended): when the image of the j-th tool call of a reply is
\* summarized, the vision request is the system instruction, then the
\* history list as it is at that moment, which ends with the current
\* assistant reply and holds no tool message of that reply, then the image
C18_ContextIsHistory ==
    Summarized =>
        /\ Len(vision_request) = Len(messages) + 2
        /\ vision_request[1] = VisionSystem
        /\ vision_request[Len(vision_request)].role = "user"
        /\ vision_request[Len(vision_request)].content[1].image_url.url
              = "data:image/jpeg;base64," \o result.base64_image
        /\ SameMessages(VisionContextSent, messages)
        /\ messages[Len(messages)].role = "assistant"
        /\ messages[Len(messages)].tool_calls = Calls
        /\ Len(tool_result_content) = i

\* the second call of a reply returned an image; the first one is answered
C18_Witness ==
    /\ Summarized
    /\ i = 2
    /\ Len(tool_result_content) = 2
    /\ Len(VisionContextSent) = Len(init) + 1

\* the positions of the history written by the second and by the first
\* invocation, and the messages at a set of positions, in order
OwnB == other.mine
OwnA == (Len(init) + 1..Len(messages)) \ other.mine
RECURSIVE Pick(_, _, _)
Pick(h, ps, p) ==
    IF p > Len(h) THEN <<>>
    ELSE (IF p \in ps THEN <<h[p]>> ELSE <<>>) \o Pick(h, ps, p + 1)
CountRole(h, ps, role) == Cardinality({p \in ps : p <= Len(h) /\ h[p].role = role})
\* neither invocation is inside an iteration
AtRest == pc \in {"create", "returned"} /\ other.pc \in {"idle", "top", "returned"}

\* C20 (as stated): when two invocations overlap on the same history list,
\* every assistant message that has tool calls is still immediately
\* followed by exactly its own tool messages, and no message of either
\* invocation is lost or duplicated
C20_OverlapKeepsGrouping ==
    AtRest =>
        /\ CompleteFrom(messages, Len(init) + 1)
        /\ Len(messages) = Len(init) + Events({"output_callback"}) + Events(EncodeEvents)
                             + other.replies + other.answered

\* C20 (amended): when two invocations overlap on the same history list, no
\* message of either invocation is lost or duplicated and the messages of
\* each invocation, taken alone, are complete iterations in order; the
\* messages of the other invocation may stand between an assistant message
\* and its tool messages
C20_OverlapKeepsOwnMessages ==
    /\ StartsWith(messages, init)
    /\ OwnB \subseteq Len(init) + 1..Len(messages)
    /\ AtRest =>
          /\ CompleteFrom(Pick(messages, OwnA, 1), 1)
          /\ CompleteFrom(Pick(messages, OwnB, 1), 1)
          /\ CountRole(messages, OwnA, "assistant") = Events({"output_callback"})
          /\ CountRole(messages, OwnA, "tool") = Events(EncodeEvents)
          /\ CountRole(messages, OwnB, "assistant") = other.replies
          /\ CountRole(messages, OwnB, "tool") = other.answered

\* both invocations are at rest and a reply of the second one stands between
\* an assistant message of the first one and its tool message
C20_Witness ==
    /\ AtRest
    /\ \E p \in OwnA :
          /\ messages[p].role = "assistant"
          /\ messages[p].tool_calls # <<>>
          /\ p + 1 \in OwnB
          /\ p + 2 \in OwnA
          /\ messages[p + 2].role = "tool"

\* sampling_loop has just been called by the driver
JustStarted == ui.pc = "loop" /\ pc = "create" /\ trace = <<>>

\* C21: the driver calls sampling_loop in a script run only when the session
\* history is non-empty and its last message is a user message, and at most
\* once per script run; when sampling_loop returns the last message is an
\* assistant message, and no call follows until a user message is appended
C21_StartsOnlyOnUserMessage ==
    /\ ui.started <= 1
    /\ ui.pc = "loop" => ui.started = 1 /\ ui.in_sampling_loop
    /\ JustStarted =>
          /\ Len(messages) > 0
          /\ messages[Len(messages)].role = "user"
          /\ SameMessages(init, messages)
          /\ ui.fresh
    /\ (ui.pc = "loop" /\ pc = "returned") =>
          messages[Len(messages)].role = "assistant"

\* after sampling_loop returned, a script run without a new message went
\* through the chat tab and called nothing
C21_Witness ==
    /\ ui.pc = "rest"
    /\ ui.runs >= 2
    /\ Truthy(ui.api_key)
    /\ ui.started = 0
    /\ ~ui.fresh
    /\ pc = "returned"
    /\ Len(messages) > 1
    /\ messages[Len(messages)].role = "assistant"

====
